---- MODULE Spec2Model ----
(***************************************************************************)
(* State-machine model of the Visual Scene Composer stage                  *)
(* (src/src/Stage.tsx): captureScene, generateSceneImage and                *)
(* startRefinementProcess, run on a JavaScript event loop.                  *)
(*                                                                         *)
(* Execution model.  A JavaScript task runs to completion: code between    *)
(* two suspension points (an await on a network call, a setTimeout) is one *)
(* atomic action.  Awaits on promises that are already resolved            *)
(* (parseSceneContext, enrichSceneWithCharacterRefs) only yield to the     *)
(* microtask queue, so no click, timer or network event can run between    *)
(* them: these positions are modelled as separate steps that exclude every *)
(* other action (Busy).  Timers are kept in creation order with the time   *)
(* left until they expire; time advances in steps of Quantum, and a timer  *)
(* fires only after every earlier timer with an equal or smaller delay.    *)
(* Network responses arrive at any moment.                                 *)
(***************************************************************************)
EXTENDS Integers, Sequences, FiniteSets, TLC

VARIABLES
    chubApiKey,        \* this.chubApiKey: "" when not configured
    enableRefinement,  \* this.enableRefinement
    imageQuality,      \* this.imageQuality
    visualState,       \* this.visualState
    task,              \* position of each async task: 0 is captureScene,
                       \* n >= 1 the refinement pass scheduled by capture n
    timers,            \* pending setTimeout callbacks, in creation order
    hist,              \* per accepted capture: what it submitted and started
    event,             \* what the last step did: a captureScene call that was
                       \* accepted or rejected, or a job that returned
    pendingLeft,       \* not-yet-terminal poll answers the service may still give
                       \* (-1: no limit)
    captureLimit,      \* accepted captureScene calls the user may still make
    maxCharacters,     \* this.maxCharacters
    messageText,       \* the content of the recent messages, as a sequence
                       \* of words
    parsed             \* what parseSceneContext returned last

vars == <<chubApiKey, enableRefinement, imageQuality, visualState, task, timers, hist,
          event, pendingLeft, captureLimit, maxCharacters, messageText, parsed>>

-----------------------------------------------------------------------------
(* Bounds of the model *)

MaxCaptures == 2
MaxPending == 1
MaxTextLen == 3
MaxCharactersConfig == 2
\* The most character references a list of available characters holds.
MaxReferences == 3

(* Program constants *)

maxAttempts == 60
pollInterval == 2000
refinementDelay == 2000
graceDelay == 3000

RECURSIVE GCD(_, _)
GCD(a, b) == IF b = 0 THEN a ELSE GCD(b, a % b)

\* Time advances in steps of the greatest common divisor of the delays.
Quantum == GCD(GCD(pollInterval, refinementDelay), graceDelay)

-----------------------------------------------------------------------------
(* Values *)

undefined == "<undefined>"

\* The URL the service returns for the base job of capture n, or for the
\* regeneration job of its refinement pass.
Url(n, refined) == [capture |-> n, refined |-> refined]
NoImage == Url(0, FALSE)

Label(text) == <<text, 0, 0>>
\* Mutant: the attempts are counted from 0.
PollLabelZeroBased(attempt) == <<"Generating...", attempt - 1, maxAttempts>>

\* Line 286: the label `Generating... ${attempt}/${maxAttempts}`.
PollLabel(attempt) == <<"Generating...", attempt, maxAttempts>>

DefaultSceneContext ==
    [characters |-> <<"main character">>, location |-> "university campus",
     actions |-> "conversation", mood |-> "neutral", timeOfDay |-> "day"]
NoSceneContext ==
    [characters |-> <<>>, location |-> undefined, actions |-> undefined,
     mood |-> undefined, timeOfDay |-> undefined]

Owners == 0 .. MaxCaptures
Captures == 1 .. MaxCaptures

IdleTask ==
    [pc |-> "idle", attempt |-> 0, polls |-> 0, pendings |-> 0,
     imageUrl |-> NoImage]

\* Per accepted capture: the jobs submitted by the capture (base) and by its
\* refinement pass (refine), the refinement passes started for it, and the
\* reference image its refinement pass sent.
NoHist == [base |-> 0, refine |-> 0, passes |-> 0, initImage |-> NoImage]

\* No submit response was read in the step.
NoSubmit ==
    [ok |-> FALSE, generation_uuid |-> FALSE, is_done |-> FALSE,
     primary_image_path |-> FALSE]

\* No check response was read in the step.
NoCheck ==
    [ok |-> FALSE,
     data |-> [is_done |-> FALSE, status |-> "", state |-> "",
               primary_image_path |-> FALSE, image_url |-> FALSE, url |-> FALSE,
               images |-> FALSE, is_failed |-> FALSE]]

\* The response a step read: of the submit request, of a status check, or none.
Read(what, submit, check) == [what |-> what, submit |-> submit, check |-> check]
NoRead == Read("none", NoSubmit, NoCheck)
SubmitRead(r) == Read("submit", r, NoCheck)
CheckRead(r) == Read("check", NoSubmit, r)

\* No submit request was sent in the step.
NoRequest ==
    [endpoint |-> "", num_inference_steps |-> 0, init_image |-> NoImage,
     strength |-> undefined]

\* What a step did: its kind ("accepted" or "rejected" for a captureScene
\* call, "submit" when generateSceneImage sent the submit request, "return" when generateSceneImage returned url to task owner after
\* the given outcome, "poll" when it went to the head of the poll loop and
\* sleeps, "grace" or "rgrace" when a grace timer fired), the counters of the
\* job record j, and the response the step read.
Event(kind, owner, outcome, url, j, rd) ==
    [kind |-> kind, owner |-> owner, outcome |-> outcome, url |-> url,
     attempt |-> j.attempt, polls |-> j.polls, pendings |-> j.pendings,
     read |-> rd.what, submit |-> rd.submit, check |-> rd.check,
     request |-> NoRequest]
NoEvent == Event("none", 0, "none", NoImage, IdleTask, NoRead)

Timer(kind, owner, delay) ==
    [kind |-> kind, owner |-> owner, delay |-> delay, remaining |-> delay]

-----------------------------------------------------------------------------
(* Responses of the remote generation service *)

\* What generateSceneImage reads of the submit response; ok = FALSE when
\* axios.post rejects (transport error, timeout, HTTP error status).
SubmitResponses ==
    { r \in [ok : BOOLEAN, generation_uuid : BOOLEAN, is_done : BOOLEAN,
             primary_image_path : BOOLEAN] :
        ~r.ok => (~r.generation_uuid /\ ~r.is_done /\ ~r.primary_image_path) }

\* The fields of a /check response that the poll loop reads.  A field that
\* carries a result is TRUE when it holds a non-empty URL.
BlankResult ==
    [is_done |-> FALSE, status |-> "", state |-> "", primary_image_path |-> FALSE,
     image_url |-> FALSE, url |-> FALSE, images |-> FALSE, is_failed |-> FALSE]

\* The response shapes the service gives in the session; ok = FALSE when the
\* check request itself fails.
PollResponses ==
    { [ok |-> FALSE, data |-> BlankResult],
      [ok |-> TRUE, data |-> BlankResult],
      [ok |-> TRUE, data |-> [BlankResult EXCEPT !.status = "processing"]],
      [ok |-> TRUE, data |-> [BlankResult EXCEPT !.is_done = TRUE,
                                                 !.primary_image_path = TRUE]],
      [ok |-> TRUE, data |-> [BlankResult EXCEPT !.status = "completed",
                                                 !.image_url = TRUE]],
      [ok |-> TRUE, data |-> [BlankResult EXCEPT !.state = "completed",
                                                 !.images = TRUE]],
      [ok |-> TRUE, data |-> [BlankResult EXCEPT !.is_done = TRUE]],
      [ok |-> TRUE, data |-> [BlankResult EXCEPT !.is_done = TRUE,
                                                 !.is_failed = TRUE]],
      [ok |-> TRUE, data |-> [BlankResult EXCEPT !.is_failed = TRUE]],
      [ok |-> TRUE, data |-> [BlankResult EXCEPT !.status = "failed"]],
      [ok |-> TRUE, data |-> [BlankResult EXCEPT !.state = "error"]] }

-----------------------------------------------------------------------------
(* generateSceneImage: the decisions it takes *)

\* Mutant: the credential check of line 224 is missing.
HasApiKeyAlways == TRUE

HasApiKey == chubApiKey # ""

\* Mutant: the short-circuit of lines 276-279 is missing.
SubmitOutcomeNoShortCircuit(r) ==
    IF ~r.ok THEN "neterror"
    ELSE IF ~r.generation_uuid THEN "nouuid"
    ELSE "poll"

\* Mutant: a submit request that failed is taken for a job to poll.
SubmitOutcomeIgnoresError(r) ==
    IF r.ok /\ ~r.generation_uuid THEN "nouuid"
    ELSE IF r.is_done /\ r.primary_image_path THEN "immediate"
    ELSE "poll"

\* Mutant: the completion flag is read before the job identifier.
SubmitOutcomeUuidLast(r) ==
    IF ~r.ok THEN "neterror"
    ELSE IF r.is_done /\ r.primary_image_path THEN "immediate"
    ELSE IF ~r.generation_uuid THEN "nouuid"
    ELSE "poll"

\* Lines 253-279: how the submit response is read.
SubmitOutcome(r) ==
    IF ~r.ok THEN "neterror"
    ELSE IF ~r.generation_uuid THEN "nouuid"
    ELSE IF r.is_done /\ r.primary_image_path THEN "immediate"
    ELSE "poll"

\* Mutant: the failure indicators are read before the completion indicators.
PollResultFailureFirst(result) ==
    IF result.is_failed \/ result.status = "failed" \/ result.state = "error"
    THEN "failed"
    ELSE IF result.is_done \/ result.status = "completed" \/ result.state = "completed"
         THEN IF result.primary_image_path \/ result.image_url \/ result.url
              THEN "completed"
              ELSE IF result.images THEN "completed" ELSE "pending"
         ELSE "pending"

\* Lines 306-319: how one /check result is read.
PollResult(result) ==
    IF result.is_done \/ result.status = "completed" \/ result.state = "completed"
    THEN IF result.primary_image_path \/ result.image_url \/ result.url
         THEN "completed"
         ELSE IF result.images THEN "completed" ELSE "pending"
    ELSE IF result.is_failed \/ result.status = "failed" \/ result.state = "error"
         THEN "failed"
         ELSE "pending"

\* Mutant: a check that throws ends the job.
CheckOutcomeAbort(r) == IF r.ok THEN PollResult(r.data) ELSE "failed"

\* Lines 291-322: a check that throws is caught and the loop goes on.
CheckOutcome(r) == IF r.ok THEN PollResult(r.data) ELSE "pending"

\* Mutant: the loop stops one attempt early.
LoopContinuesShort(attempt) == attempt < maxAttempts

\* Line 285: the loop condition.
LoopContinues(attempt) == attempt <= maxAttempts

\* The URL the service gives for the job task o runs.
JobUrl(o, vs) ==
    IF o = 0 THEN Url(vs.generationStats.totalGenerations, FALSE) ELSE Url(o, TRUE)

-----------------------------------------------------------------------------
(* captureScene and startRefinementProcess: the code after the job returns *)

\* Mutant: the avatar is preferred to the gallery.
getBestCharacterReferenceAvatarFirst(vs) ==
    IF Len(vs.availableCharacters) = 0 THEN NoImage
    ELSE IF vs.availableCharacters[1].avatarUrl # NoImage
         THEN vs.availableCharacters[1].avatarUrl
         ELSE IF Len(vs.availableCharacters[1].galleryImages) > 0
              THEN vs.availableCharacters[1].galleryImages[1]
              ELSE NoImage

\* Lines 403-417.  NoImage stands for undefined and for an empty URL, which
\* line 230 treats alike.
getBestCharacterReference(vs) ==
    IF Len(vs.availableCharacters) = 0 THEN NoImage
    ELSE IF Len(vs.availableCharacters[1].galleryImages) > 0
         THEN vs.availableCharacters[1].galleryImages[1]
         ELSE vs.availableCharacters[1].avatarUrl

\* Mutant: the regeneration job reads the latest stored image instead.
RefineReferenceLatest(o, vs) == vs.lastGeneratedImage

\* Line 441: the reference image of the regeneration job is the imageUrl
\* parameter of startRefinementProcess, held by the callback's closure.
RefineReference(o, vs) == task[o].imageUrl

\* Mutant: the follow-up is scheduled whatever the job returned.
ShouldRefineAnyResult(vs, imageUrl) == enableRefinement /\ ~vs.isRefining

\* Mutant: the configuration flag is not consulted.
ShouldRefineAlways(vs, imageUrl) == imageUrl # NoImage /\ ~vs.isRefining

\* Line 375.
ShouldRefine(vs, imageUrl) ==
    imageUrl # NoImage /\ enableRefinement /\ ~vs.isRefining

\* Mutant: the failure branch does not record lastError.
captureResultNoLastError(vs, imageUrl) ==
    IF imageUrl # NoImage
    THEN [vs EXCEPT !.lastGeneratedImage = imageUrl,
                    !.generationProgress = Label("Scene captured successfully!"),
                    !.generationStats.successfulGenerations = @ + 1]
    ELSE [vs EXCEPT !.generationProgress = Label("Generation failed"),
                    !.errorMessage = "Image generation failed - check API connection"]

\* Lines 369-382: the result branch (imageUrl = NoImage is null).
captureResult(vs, imageUrl) ==
    IF imageUrl # NoImage
    THEN [vs EXCEPT !.lastGeneratedImage = imageUrl,
                    !.generationProgress = Label("Scene captured successfully!"),
                    !.generationStats.successfulGenerations = @ + 1]
    ELSE [vs EXCEPT !.generationProgress = Label("Generation failed"),
                    !.errorMessage = "Image generation failed - check API connection",
                    !.generationStats.lastError = "Generation returned null"]

\* Lines 687-690: the record is replaced by a shallow copy of itself.
forceUpdate(vs) == [field \in DOMAIN vs |-> vs[field]]

\* Mutant: the finally block does not clear the in-flight flag.
captureFinallyStuck(vs) == vs

\* Lines 389-391.
captureFinally(vs) == forceUpdate([vs EXCEPT !.isGenerating = FALSE])

\* Mutant: the result of the regeneration job is stored before it is tested.
refineResultStoresNull(vs, refinedImageUrl) ==
    IF refinedImageUrl # NoImage
    THEN [vs EXCEPT !.lastGeneratedImage = refinedImageUrl,
                    !.generationProgress = Label("Refinement complete!"),
                    !.generationStats.successfulGenerations = @ + 1]
    ELSE [vs EXCEPT !.lastGeneratedImage = refinedImageUrl,
                    !.generationProgress = Label("Refinement failed"),
                    !.errorMessage = "Refinement generation failed"]

\* Lines 443-450.
refineResult(vs, refinedImageUrl) ==
    IF refinedImageUrl # NoImage
    THEN [vs EXCEPT !.lastGeneratedImage = refinedImageUrl,
                    !.generationProgress = Label("Refinement complete!"),
                    !.generationStats.successfulGenerations = @ + 1]
    ELSE [vs EXCEPT !.generationProgress = Label("Refinement failed"),
                    !.errorMessage = "Refinement generation failed"]

\* Mutant: the finally block of the pass does not clear the refinement flag.
refineFinallyStuck(vs) == vs

\* Lines 458-460.
refineFinally(vs) == forceUpdate([vs EXCEPT !.isRefining = FALSE])

\* Mutant: the poll loop is not left when the result is returned.
ReturnKeepsPolling(o, j, url, outcome, vs, tm, h, rd) ==
    /\ visualState' = IF o = 0 THEN captureFinally(captureResult(vs, url))
                      ELSE refineFinally(refineResult(vs, url))
    /\ task' = [task EXCEPT ![o] = [j EXCEPT !.pc = "delay"]]
    /\ timers' = tm \o <<Timer("poll", o, pollInterval),
                          Timer(IF o = 0 THEN "grace" ELSE "rgrace", o, graceDelay)>>
    /\ hist' = h
    /\ event' = Event("return", o, outcome, url, j, rd)

\* generateSceneImage returns url (NoImage for null) to the task o that awaits
\* it; j is the task's record, vs/tm/h the state built so far in this step.
Return(o, j, url, outcome, vs, tm, h, rd) ==
    IF o = 0
    THEN LET n == vs.generationStats.totalGenerations
             sched == ShouldRefine(vs, url)
         IN /\ visualState' = captureFinally(captureResult(vs, url))
            /\ task' = [task EXCEPT
                          ![0] = IdleTask,
                          ![n] = IF sched
                                 THEN [IdleTask EXCEPT !.pc = "deferred",
                                                       !.imageUrl = url]
                                 ELSE @]
            /\ timers' = tm \o (IF sched
                                THEN <<Timer("defer", n, refinementDelay)>>
                                ELSE <<>>)
                            \o <<Timer("grace", 0, graceDelay)>>
            /\ hist' = h
            /\ event' = Event("return", o, outcome, url, j, rd)
    ELSE /\ visualState' = refineFinally(refineResult(vs, url))
         /\ task' = [task EXCEPT ![o] = IdleTask]
         /\ timers' = Append(tm, Timer("rgrace", o, graceDelay))
         /\ hist' = h
         /\ event' = Event("return", o, outcome, url, j, rd)

\* Lines 285-289 and 325-326: the head of the poll loop with the given
\* attempt number: write the progress label and sleep, or time out.
LoopHead(o, j, attempt, vs, tm, h, rd) ==
    IF LoopContinues(attempt)
    THEN /\ visualState' = [vs EXCEPT !.generationProgress = PollLabel(attempt)]
         /\ task' = [task EXCEPT ![o] = [j EXCEPT !.pc = "delay", !.attempt = attempt]]
         /\ timers' = Append(tm, Timer("poll", o, pollInterval))
         /\ hist' = h
         /\ event' = Event("poll", o, "none", NoImage,
                            [j EXCEPT !.attempt = attempt], rd)
    ELSE Return(o, j, NoImage, "timeout", vs, tm, h, rd)

\* Lines 223-263: generateSceneImage up to the pending submit request.
\* Mutant: the reference image is ignored.
SubmitRequestTextOnly(referenceUrl) ==
    [endpoint |-> "/images/text2img",
     num_inference_steps |-> IF imageQuality = "high" THEN 50 ELSE 30,
     init_image |-> NoImage,
     strength |-> undefined]

\* Lines 229-251: the endpoint and the fields of the payload that depend on
\* the reference image and on the configured quality.  A field that is not
\* set is NoImage or undefined; the strength is written as a string.
SubmitRequest(referenceUrl) ==
    [endpoint |-> IF referenceUrl # NoImage THEN "/images/img2img"
                  ELSE "/images/text2img",
     num_inference_steps |-> IF imageQuality = "high" THEN 50 ELSE 30,
     init_image |-> IF referenceUrl # NoImage THEN referenceUrl ELSE NoImage,
     strength |-> IF referenceUrl # NoImage THEN "0.7" ELSE undefined]

GenStart(o, referenceUrl, vs, tm, h) ==
    LET j == [task[o] EXCEPT !.attempt = 0, !.polls = 0, !.pendings = 0]
        n == IF o = 0 THEN vs.generationStats.totalGenerations ELSE o
    IN IF ~HasApiKey
       THEN Return(o, j, NoImage, "nokey", vs, tm, h, NoRead)
       ELSE /\ visualState' = vs
            /\ task' = [task EXCEPT ![o] = [j EXCEPT !.pc = "submit"]]
            /\ timers' = tm
            /\ event' = [Event("submit", o, "none", NoImage, j, NoRead)
                           EXCEPT !.request = SubmitRequest(referenceUrl)]
            /\ hist' = IF o = 0
                       THEN [h EXCEPT ![n].base = @ + 1]
                       ELSE [h EXCEPT ![n].refine = @ + 1,
                                      ![n].initImage = referenceUrl]

-----------------------------------------------------------------------------
(* The event loop *)

\* A task is between two awaits on already-resolved promises: its next step
\* is a microtask, which runs before any click, timer or network event.
Busy == task[0].pc \in {"parse", "enrich"}

Without(tm, i) == SubSeq(tm, 1, i - 1) \o SubSeq(tm, i + 1, Len(tm))

\* Timer i has expired, and every timer started before it with a delay that
\* is not larger has already fired.
CanFire(i) ==
    /\ ~Busy
    /\ i \in 1 .. Len(timers)
    /\ timers[i].remaining = 0
    /\ \A k \in 1 .. (i - 1) : timers[k].delay > timers[i].delay

Max(a, b) == IF a >= b THEN a ELSE b

\* Time passes: no expired timer is waiting.
Tick ==
    /\ ~Busy
    /\ Len(timers) > 0
    /\ \A i \in 1 .. Len(timers) : timers[i].remaining > 0
    /\ timers' = [i \in 1 .. Len(timers) |->
                    [timers[i] EXCEPT !.remaining = Max(0, @ - Quantum)]]
    /\ event' = NoEvent
    /\ UNCHANGED <<captureLimit, imageQuality, maxCharacters, messageText, parsed, chubApiKey,
                 enableRefinement, visualState, task, hist,
                   pendingLeft>>

-----------------------------------------------------------------------------
(* parseSceneContext: extraction of the scene context from message text *)

\* A text is a sequence of words separated by single spaces.  A word is a run
\* of letters, written in lower case or with a capital first letter (cap),
\* and may be followed by a full stop, a comma or 's (tail): name is the run of
\* letters as written, lower its lower-case form, w the letters of lower.
Vocabulary ==
    { [name |-> "professor", lower |-> "professor", w |-> <<"p", "r", "o", "f", "e", "s", "s", "o", "r">>,
       cap |-> FALSE, tail |-> ""],
      [name |-> "dr", lower |-> "dr", w |-> <<"d", "r">>,
       cap |-> FALSE, tail |-> "."],
      [name |-> "Smith", lower |-> "smith", w |-> <<"s", "m", "i", "t", "h">>,
       cap |-> TRUE, tail |-> ""],
      [name |-> "said", lower |-> "said", w |-> <<"s", "a", "i", "d">>,
       cap |-> FALSE, tail |-> ""],
      [name |-> "library", lower |-> "library", w |-> <<"l", "i", "b", "r", "a", "r", "y">>,
       cap |-> FALSE, tail |-> ""],
      [name |-> "reading", lower |-> "reading", w |-> <<"r", "e", "a", "d", "i", "n", "g">>,
       cap |-> FALSE, tail |-> ""],
      [name |-> "sad", lower |-> "sad", w |-> <<"s", "a", "d">>,
       cap |-> FALSE, tail |-> ""],
      [name |-> "midnight", lower |-> "midnight", w |-> <<"m", "i", "d", "n", "i", "g", "h", "t">>,
       cap |-> FALSE, tail |-> ""],
      [name |-> "sunset", lower |-> "sunset", w |-> <<"s", "u", "n", "s", "e", "t">>,
       cap |-> FALSE, tail |-> ""] }

\* The text "Professor Smith said hello in the library at sunset, a romantic
\* mood fills the room".
ExampleText ==
    << [name |-> "Professor", lower |-> "professor",
        w |-> <<"p", "r", "o", "f", "e", "s", "s", "o", "r">>,
        cap |-> TRUE, tail |-> ""],
       [name |-> "Smith", lower |-> "smith",
        w |-> <<"s", "m", "i", "t", "h">>,
        cap |-> TRUE, tail |-> ""],
       [name |-> "said", lower |-> "said",
        w |-> <<"s", "a", "i", "d">>,
        cap |-> FALSE, tail |-> ""],
       [name |-> "hello", lower |-> "hello",
        w |-> <<"h", "e", "l", "l", "o">>,
        cap |-> FALSE, tail |-> ""],
       [name |-> "in", lower |-> "in",
        w |-> <<"i", "n">>,
        cap |-> FALSE, tail |-> ""],
       [name |-> "the", lower |-> "the",
        w |-> <<"t", "h", "e">>,
        cap |-> FALSE, tail |-> ""],
       [name |-> "library", lower |-> "library",
        w |-> <<"l", "i", "b", "r", "a", "r", "y">>,
        cap |-> FALSE, tail |-> ""],
       [name |-> "at", lower |-> "at",
        w |-> <<"a", "t">>,
        cap |-> FALSE, tail |-> ""],
       [name |-> "sunset", lower |-> "sunset",
        w |-> <<"s", "u", "n", "s", "e", "t">>,
        cap |-> FALSE, tail |-> ","],
       [name |-> "a", lower |-> "a",
        w |-> <<"a">>,
        cap |-> FALSE, tail |-> ""],
       [name |-> "romantic", lower |-> "romantic",
        w |-> <<"r", "o", "m", "a", "n", "t", "i", "c">>,
        cap |-> FALSE, tail |-> ""],
       [name |-> "mood", lower |-> "mood",
        w |-> <<"m", "o", "o", "d">>,
        cap |-> FALSE, tail |-> ""],
       [name |-> "fills", lower |-> "fills",
        w |-> <<"f", "i", "l", "l", "s">>,
        cap |-> FALSE, tail |-> ""],
       [name |-> "the", lower |-> "the",
        w |-> <<"t", "h", "e">>,
        cap |-> FALSE, tail |-> ""],
       [name |-> "room", lower |-> "room",
        w |-> <<"r", "o", "o", "m">>,
        cap |-> FALSE, tail |-> ""] >>

\* The letters of a word as written; a capital letter is no lower-case one.
Letters(tok) == IF tok.cap THEN <<"A-Z">> \o Tail(tok.w) ELSE tok.w

\* String.prototype.toLowerCase on a text.
toLowerCase(txt) ==
    [i \in 1 .. Len(txt) |-> [txt[i] EXCEPT !.name = txt[i].lower, !.cap = FALSE]]

\* String.prototype.includes for a keyword of lower-case letters: the keyword
\* occurs inside the letters of some word.
includes(txt, keyword) ==
    \E i \in 1 .. Len(txt) :
        \E k \in 0 .. (Len(txt[i].w) - Len(keyword)) :
            SubSeq(Letters(txt[i]), k + 1, k + Len(keyword)) = keyword

StartsWith(letters, prefix) ==
    /\ Len(letters) >= Len(prefix)
    /\ SubSeq(letters, 1, Len(prefix)) = prefix

\* Line 539.
SpeechVerbs ==
    { <<"s", "a", "i", "d">>,
      <<"s", "a", "y", "s">>,
      <<"a", "s", "k", "e", "d">>,
      <<"r", "e", "p", "l", "i", "e", "d">>,
      <<"w", "h", "i", "s", "p", "e", "r", "e", "d">>,
      <<"s", "h", "o", "u", "t", "e", "d">> }

\* Line 540.
MotionVerbs ==
    { <<"w", "a", "l", "k", "e", "d">>,
      <<"r", "a", "n">>,
      <<"s", "m", "i", "l", "e", "d">>,
      <<"f", "r", "o", "w", "n", "e", "d">>,
      <<"l", "o", "o", "k", "e", "d">>,
      <<"t", "u", "r", "n", "e", "d">> }

\* Lines 539-540, /\b([A-Z][a-z]+)\s+(verb)/g: the words with a capital
\* first letter that are followed by a word that begins with one of the verbs.
RECURSIVE VerbMatches(_, _, _)
VerbMatches(txt, i, verbSet) ==
    IF i >= Len(txt) THEN <<>>
    ELSE IF /\ txt[i].cap /\ Len(txt[i].w) >= 2 /\ txt[i].tail = ""
            /\ \E v \in verbSet : StartsWith(Letters(txt[i + 1]), v)
         THEN <<txt[i]>> \o VerbMatches(txt, i + 2, verbSet)
         ELSE VerbMatches(txt, i + 1, verbSet)

\* Line 541, /\b([A-Z][a-z]+)'s\s+/g.
RECURSIVE PossessiveMatches(_, _)
PossessiveMatches(txt, i) ==
    IF i >= Len(txt) THEN <<>>
    ELSE IF txt[i].cap /\ Len(txt[i].w) >= 2 /\ txt[i].tail = "'s"
         THEN <<txt[i]>> \o PossessiveMatches(txt, i + 1)
         ELSE PossessiveMatches(txt, i + 1)

\* Lines 542-545, /\btitle\.?\s+([A-Z][a-z]+)/gi: the flag i makes both the
\* title and the class [A-Z] match either case, so the name is any run of
\* two letters or more after the title; a match consumes the name, and the
\* search goes on behind it.
RECURSIVE TitleMatches(_, _, _, _)
TitleMatches(txt, i, title, stops) ==
    IF i >= Len(txt) THEN <<>>
    ELSE IF /\ txt[i].w = title /\ txt[i].tail \in stops
            /\ Len(txt[i + 1].w) >= 2
         THEN <<txt[i + 1]>> \o TitleMatches(txt, i + 2, title, stops)
         ELSE TitleMatches(txt, i + 1, title, stops)

\* Lines 538-546: the matches of the seven patterns, pattern by pattern.
characterPatterns(txt) ==
    VerbMatches(txt, 1, SpeechVerbs)
      \o VerbMatches(txt, 1, MotionVerbs)
      \o PossessiveMatches(txt, 1)
      \o TitleMatches(txt, 1, <<"p", "r", "o", "f", "e", "s", "s", "o", "r">>, {""})
      \o TitleMatches(txt, 1, <<"d", "r">>, {"", "."})
      \o TitleMatches(txt, 1, <<"m", "r">>, {"", "."})
      \o TitleMatches(txt, 1, <<"m", "s">>, {"", "."})

Range(seq) == { seq[i] : i \in 1 .. Len(seq) }

\* Lines 548-556: a name longer than two letters is kept unless it is
\* already in the list.
RECURSIVE CollectNames(_, _)
CollectNames(matches, characters) ==
    IF matches = <<>> THEN characters
    ELSE LET tok == Head(matches)
         IN CollectNames(Tail(matches),
                         IF Len(tok.w) > 2 /\ tok.name \notin Range(characters)
                         THEN Append(characters, tok.name)
                         ELSE characters)

Min(a, b) == IF a <= b THEN a ELSE b

\* Array.prototype.slice(0, end): a negative end counts from the end of the
\* array.
slice(seq, end) ==
    SubSeq(seq, 1, IF end < 0 THEN Max(Len(seq) + end, 0) ELSE Min(end, Len(seq)))

\* Mutant: the list is returned whole.
extractCharactersNoSlice(txt, limit) ==
    CollectNames(characterPatterns(txt), <<>>)

\* Lines 534-559.
extractCharacters(txt, limit) ==
    slice(CollectNames(characterPatterns(txt), <<>>), limit)

\* Lines 562-581.
locationKeywords ==
    << <<<<"c", "l", "a", "s", "s", "r", "o", "o", "m">>, "classroom">>,
       <<<<"l", "i", "b", "r", "a", "r", "y">>, "library">>,
       <<<<"c", "a", "f", "e", "t", "e", "r", "i", "a">>, "cafeteria">>,
       <<<<"d", "o", "r", "m", "i", "t", "o", "r", "y">>, "dormitory">>,
       <<<<"d", "o", "r", "m">>, "dormitory">>,
       <<<<"o", "f", "f", "i", "c", "e">>, "office">>,
       <<<<"c", "a", "m", "p", "u", "s">>, "university campus">>,
       <<<<"c", "o", "u", "r", "t", "y", "a", "r", "d">>, "courtyard">>,
       <<<<"a", "u", "d", "i", "t", "o", "r", "i", "u", "m">>, "auditorium">>,
       <<<<"l", "a", "b", "o", "r", "a", "t", "o", "r", "y">>, "laboratory">>,
       <<<<"l", "a", "b">>, "laboratory">>,
       <<<<"g", "a", "r", "d", "e", "n">>, "garden">>,
       <<<<"h", "a", "l", "l", "w", "a", "y">>, "hallway">>,
       <<<<"c", "o", "r", "r", "i", "d", "o", "r">>, "corridor">>,
       <<<<"r", "o", "o", "f", "t", "o", "p">>, "rooftop">>,
       <<<<"p", "a", "r", "k", "i", "n", "g">>, "parking lot">>,
       <<<<"f", "i", "e", "l", "d">>, "sports field">>,
       <<<<"g", "y", "m">>, "gymnasium">> >>

\* Lines 593-613.
actionKeywords ==
    << <<<<"s", "t", "u", "d", "y", "i", "n", "g">>, "studying">>,
       <<<<"r", "e", "a", "d", "i", "n", "g">>, "reading">>,
       <<<<"w", "r", "i", "t", "i", "n", "g">>, "writing">>,
       <<<<"w", "a", "l", "k", "i", "n", "g">>, "walking">>,
       <<<<"r", "u", "n", "n", "i", "n", "g">>, "running">>,
       <<<<"s", "i", "t", "t", "i", "n", "g">>, "sitting">>,
       <<<<"s", "t", "a", "n", "d", "i", "n", "g">>, "standing">>,
       <<<<"t", "a", "l", "k", "i", "n", "g">>, "having a conversation">>,
       <<<<"d", "i", "s", "c", "u", "s", "s", "i", "n", "g">>, "discussing">>,
       <<<<"a", "r", "g", "u", "i", "n", "g">>, "arguing">>,
       <<<<"l", "a", "u", "g", "h", "i", "n", "g">>, "laughing">>,
       <<<<"c", "r", "y", "i", "n", "g">>, "crying">>,
       <<<<"e", "a", "t", "i", "n", "g">>, "eating">>,
       <<<<"d", "r", "i", "n", "k", "i", "n", "g">>, "drinking">>,
       <<<<"m", "e", "e", "t", "i", "n", "g">>, "meeting">>,
       <<<<"p", "r", "e", "s", "e", "n", "t", "a", "t", "i", "o", "n">>, "giving presentation">>,
       <<<<"l", "e", "c", "t", "u", "r", "e">>, "attending lecture">>,
       <<<<"e", "x", "a", "m">>, "taking exam">>,
       <<<<"t", "e", "s", "t">>, "taking test">> >>

\* Lines 625-640.
moodKeywords ==
    << <<<<"h", "a", "p", "p", "y">>, "joyful">>,
       <<<<"s", "a", "d">>, "melancholic">>,
       <<<<"a", "n", "g", "r", "y">>, "tense">>,
       <<<<"e", "x", "c", "i", "t", "e", "d">>, "energetic">>,
       <<<<"n", "e", "r", "v", "o", "u", "s">>, "anxious">>,
       <<<<"c", "a", "l", "m">>, "peaceful">>,
       <<<<"w", "o", "r", "r", "i", "e", "d">>, "concerned">>,
       <<<<"s", "u", "r", "p", "r", "i", "s", "e", "d">>, "surprised">>,
       <<<<"c", "o", "n", "f", "u", "s", "e", "d">>, "puzzled">>,
       <<<<"r", "o", "m", "a", "n", "t", "i", "c">>, "romantic">>,
       <<<<"s", "e", "r", "i", "o", "u", "s">>, "serious">>,
       <<<<"p", "l", "a", "y", "f", "u", "l">>, "playful">>,
       <<<<"d", "r", "a", "m", "a", "t", "i", "c">>, "dramatic">>,
       <<<<"i", "n", "t", "e", "n", "s", "e">>, "intense">> >>

\* Lines 652-664.
timeKeywords ==
    << <<<<"m", "o", "r", "n", "i", "n", "g">>, "morning">>,
       <<<<"d", "a", "w", "n">>, "dawn">>,
       <<<<"s", "u", "n", "r", "i", "s", "e">>, "sunrise">>,
       <<<<"a", "f", "t", "e", "r", "n", "o", "o", "n">>, "afternoon">>,
       <<<<"n", "o", "o", "n">>, "midday">>,
       <<<<"e", "v", "e", "n", "i", "n", "g">>, "evening">>,
       <<<<"s", "u", "n", "s", "e", "t">>, "sunset">>,
       <<<<"n", "i", "g", "h", "t">>, "night">>,
       <<<<"m", "i", "d", "n", "i", "g", "h", "t">>, "midnight">>,
       <<<<"d", "u", "s", "k">>, "dusk">>,
       <<<<"t", "w", "i", "l", "i", "g", "h", "t">>, "twilight">> >>

\* Mutant: the keyword that occurs first in the text wins.
extractKeywordByPosition(keywords, txt) ==
    LET at(i) == { k \in 1 .. Len(keywords) : includes(<<txt[i]>>, keywords[k][1]) }
        words == { i \in 1 .. Len(txt) : at(i) # {} }
    IN IF words = {} THEN ""
       ELSE LET first == CHOOSE i \in words : \A j \in words : i <= j
            IN keywords[CHOOSE k \in at(first) : \A m \in at(first) : k <= m][2]

\* Lines 583-589, 615-621, 642-648, 666-672: the value of the first keyword,
\* in table order, that the text includes; '' when there is none.
extractKeyword(keywords, txt) ==
    LET hits == { k \in 1 .. Len(keywords) : includes(txt, keywords[k][1]) }
    IN IF hits = {} THEN ""
       ELSE keywords[CHOOSE k \in hits : \A m \in hits : k <= m][2]

\* Mutant: an empty field is returned as it is.
OrDefaultNone(value, default) == value

\* The || of lines 518-522 on a string.
OrDefault(value, default) == IF value = "" THEN default ELSE value

\* Lines 496-525, for the combined text of the recent messages.
SceneContextOf(txt, limit) ==
    LET combinedText == toLowerCase(txt)
        characters == extractCharacters(combinedText, limit)
    IN [characters |-> IF Len(characters) > 0 THEN characters
                       ELSE <<"main character">>,
        location |-> OrDefault(extractKeyword(locationKeywords, combinedText),
                               "university campus"),
        actions |-> OrDefault(extractKeyword(actionKeywords, combinedText),
                              "conversation"),
        mood |-> OrDefault(extractKeyword(moodKeywords, combinedText), "neutral"),
        timeOfDay |-> OrDefault(extractKeyword(timeKeywords, combinedText), "day")]

\* The texts of up to MaxTextLen words of the vocabulary.
Texts == UNION { [1 .. n -> Vocabulary] : n \in 0 .. MaxTextLen }

\* Lines 527-532: getRecentMessages returns no message.
getRecentMessages == <<>>

\* Line 102: image_quality || "standard"; "" is a quality not configured.
ConfiguredImageQuality(image_quality) ==
    IF image_quality = "" THEN "standard" ELSE image_quality

\* Line 103: max_characters || 3.
ConfiguredMaxCharacters(max_characters) ==
    IF max_characters = 0 THEN 3 ELSE max_characters

-----------------------------------------------------------------------------
(* captureScene *)

\* Mutant: the guard is missing.
SingleFlightOff(vs) == FALSE

\* Line 335: the single-flight guard.
SingleFlight(vs) == vs.isGenerating

\* Lines 334-348: the button handler up to its first await.  A call that
\* hits the guard returns at once.  No statement of the try block can throw
\* (getRecentMessages returns no messages, fetchCharacterReference returns
\* null, generateSceneImage catches every error and returns null), so the
\* catch block of lines 384-388 is never entered and has no action.
captureScene ==
    /\ ~Busy
    /\ \/ /\ SingleFlight(visualState)
          /\ event' = Event("rejected", 0, "none", NoImage, IdleTask, NoRead)
          /\ UNCHANGED <<visualState, task, timers, hist>>
       \/ /\ ~SingleFlight(visualState)
          /\ visualState.generationStats.totalGenerations < captureLimit
          /\ visualState' =
               [visualState EXCEPT
                  !.isGenerating = TRUE,
                  !.generationProgress = Label("Analyzing scene context..."),
                  !.errorMessage = undefined,
                  !.generationStats.totalGenerations = @ + 1]
          /\ task' = [task EXCEPT ![0] = [IdleTask EXCEPT !.pc = "parse"]]
          /\ event' = Event("accepted", 0, "none", NoImage, IdleTask, NoRead)
          /\ UNCHANGED <<timers, hist>>
    /\ UNCHANGED <<captureLimit, imageQuality, maxCharacters, messageText, parsed, chubApiKey,
                 enableRefinement, pendingLeft>>

\* A lookup gives null, written <<>>, or a reference, written <<reference>>.
null == <<>>

\* Lines 192-198: the lookup is switched off and gives null for every name.
fetchCharacterReference(characterName) == null

RECURSIVE Concat(_)
Concat(seqs) == IF seqs = <<>> THEN <<>> ELSE Head(seqs) \o Concat(Tail(seqs))

\* Mutant: a name whose lookup gave null is left out.
enrichSceneWithCharacterRefsDropping(sceneContext) ==
    LET names == sceneContext.characters
        lookups == [i \in 1 .. Len(names) |-> fetchCharacterReference(names[i])]
        enrichedCharacters ==
            Concat([i \in 1 .. Len(names) |->
                      IF lookups[i] # null THEN <<lookups[i][1].name>> ELSE <<>>])
    IN [sceneContext |-> [sceneContext EXCEPT !.characters = enrichedCharacters],
        availableCharacters |-> Concat(lookups)]

\* Lines 200-220: the names in their order, each replaced by the name of its
\* reference when the lookup gave one, and the references that were found,
\* in the order of their names.
enrichSceneWithCharacterRefs(sceneContext) ==
    LET names == sceneContext.characters
        lookups == [i \in 1 .. Len(names) |-> fetchCharacterReference(names[i])]
        enrichedCharacters ==
            [i \in 1 .. Len(names) |->
               IF lookups[i] # null THEN lookups[i][1].name ELSE names[i]]
    IN [sceneContext |-> [sceneContext EXCEPT !.characters = enrichedCharacters],
        availableCharacters |-> Concat(lookups)]

\* Lines 348-354: parseSceneContext has returned; enrichment starts.
CaptureParsed ==
    /\ task[0].pc = "parse"
    /\ parsed' = SceneContextOf(messageText, maxCharacters)
    /\ visualState' =
         [visualState EXCEPT
            !.generationProgress = Label("Fetching character references...")]
    /\ task' = [task EXCEPT ![0].pc = "enrich"]
    /\ event' = NoEvent
    /\ UNCHANGED <<captureLimit, imageQuality, maxCharacters, messageText, chubApiKey,
                 enableRefinement, timers, hist, pendingLeft>>

\* Lines 200-220 and 355-367: enrichment has returned; the prompt is composed
\* and the job is started.
CaptureEnriched ==
    /\ task[0].pc = "enrich"
    /\ LET enriched == enrichSceneWithCharacterRefs(parsed)
           vs1 == [visualState EXCEPT
                     !.availableCharacters = enriched.availableCharacters,
                     !.sceneContext = enriched.sceneContext]
           referenceUrl == getBestCharacterReference(vs1)
           vs2 == [vs1 EXCEPT
                     !.generationProgress = Label("Generating scene image...")]
       IN GenStart(0, referenceUrl, vs2, timers, hist)
    /\ UNCHANGED <<captureLimit, imageQuality, maxCharacters, messageText, parsed, chubApiKey,
                 enableRefinement, pendingLeft>>

-----------------------------------------------------------------------------
(* generateSceneImage: its suspension points, for the task o that runs it *)

\* Lines 257-289: the submit request settles.
SubmitResponse(o, r) ==
    /\ ~Busy
    /\ task[o].pc = "submit"
    /\ LET out == SubmitOutcome(r)
       IN CASE out = "poll" ->
                 LoopHead(o, task[o], 1, visualState, timers, hist,
                          SubmitRead(r))
            [] out = "immediate" ->
                 Return(o, task[o], JobUrl(o, visualState), out, visualState,
                        timers, hist, SubmitRead(r))
            [] OTHER ->
                 Return(o, task[o], NoImage, out, visualState, timers, hist,
                        SubmitRead(r))
    /\ UNCHANGED <<captureLimit, imageQuality, maxCharacters, messageText, parsed, chubApiKey,
                 enableRefinement, pendingLeft>>

\* Lines 289-301: the poll delay is over; the status check is sent.
PollTimerFires(i) ==
    /\ CanFire(i)
    /\ timers[i].kind = "poll"
    /\ task' = [task EXCEPT ![timers[i].owner].pc = "check",
                            ![timers[i].owner].polls = @ + 1]
    /\ timers' = Without(timers, i)
    /\ event' = NoEvent
    /\ UNCHANGED <<captureLimit, imageQuality, maxCharacters, messageText, parsed, chubApiKey,
                 enableRefinement, visualState, hist, pendingLeft>>

\* Lines 303-326: the status check settles.
CheckResponse(o, r) ==
    /\ ~Busy
    /\ task[o].pc = "check"
    /\ LET out == CheckOutcome(r)
       IN CASE out = "completed" ->
                 /\ Return(o, task[o], JobUrl(o, visualState), out, visualState,
                           timers, hist, CheckRead(r))
                 /\ UNCHANGED pendingLeft
            [] out = "failed" ->
                 /\ Return(o, task[o], NoImage, out, visualState, timers, hist,
                           CheckRead(r))
                 /\ UNCHANGED pendingLeft
            [] OTHER ->
                 /\ pendingLeft # 0
                 /\ pendingLeft' = IF pendingLeft > 0 THEN pendingLeft - 1
                                   ELSE pendingLeft
                 /\ LoopHead(o, [task[o] EXCEPT !.pendings = @ + 1],
                             task[o].attempt + 1, visualState, timers, hist,
                             CheckRead(r))
    /\ UNCHANGED <<captureLimit, imageQuality, maxCharacters, messageText, parsed, chubApiKey,
                 enableRefinement>>

-----------------------------------------------------------------------------
(* Timers of captureScene and startRefinementProcess *)

\* Lines 394-399: the grace timer of a capture.
GraceFires(i) ==
    /\ CanFire(i)
    /\ timers[i].kind = "grace"
    /\ visualState' = IF ~visualState.isRefining
                      THEN [visualState EXCEPT !.generationProgress = Label("Ready")]
                      ELSE visualState
    /\ timers' = Without(timers, i)
    /\ event' = Event("grace", 0,
                       IF ~visualState.isRefining THEN "ready" ELSE "skipped",
                       NoImage, IdleTask, NoRead)
    /\ UNCHANGED <<captureLimit, imageQuality, maxCharacters, messageText, parsed, chubApiKey,
                 enableRefinement, task, hist, pendingLeft>>

\* Lines 463-466: the timer started when a refinement pass ends.
RefineGraceFires(i) ==
    /\ CanFire(i)
    /\ timers[i].kind = "rgrace"
    /\ visualState' = [visualState EXCEPT !.generationProgress = Label("Ready")]
    /\ timers' = Without(timers, i)
    /\ event' = Event("rgrace", timers[i].owner, "ready", NoImage, IdleTask, NoRead)
    /\ UNCHANGED <<captureLimit, imageQuality, maxCharacters, messageText, parsed, chubApiKey,
                 enableRefinement, task, hist, pendingLeft>>

\* Lines 421-441 and 451-467: the deferred refinement callback.  verifyImage
\* decides by Math.random() whether the image needs improvement.
RefinementStarts(i, needsImprovement) ==
    /\ CanFire(i)
    /\ timers[i].kind = "defer"
    /\ LET o == timers[i].owner
           tm == Without(timers, i)
           h == [hist EXCEPT ![o].passes = @ + 1]
           vs1 == [visualState EXCEPT
                     !.isRefining = TRUE,
                     !.generationProgress = Label("Starting refinement process...")]
       IN IF needsImprovement
          THEN GenStart(o, RefineReference(o, visualState),
                        [vs1 EXCEPT !.generationProgress = Label("Refining image...")],
                        tm, h)
          ELSE /\ visualState' =
                    refineFinally(
                      [vs1 EXCEPT !.generationProgress =
                         Label("Image quality verified - no refinement needed")])
               /\ task' = [task EXCEPT ![o] = IdleTask]
               /\ timers' = Append(tm, Timer("rgrace", o, graceDelay))
               /\ hist' = h
               /\ event' = NoEvent
    /\ UNCHANGED <<captureLimit, imageQuality, maxCharacters, messageText, parsed, chubApiKey,
                 enableRefinement, pendingLeft>>

-----------------------------------------------------------------------------
(* The calls of the host: setState, beforePrompt, afterResponse *)

\* The message states the host passes to setState: null, or a record whose
\* last_narrative and scene_context are set or not ("": not set).
MessageStates ==
    [null : {FALSE}, last_narrative : {"", "narrative"},
     scene_context : {"", "context"}]
      \cup {[null |-> TRUE, last_narrative |-> "", scene_context |-> ""]}

\* Mutant: setState builds the record anew.
setStateResultFresh(vs, state) ==
    IF ~state.null
    THEN [vs EXCEPT
            !.currentNarrative = IF state.last_narrative # ""
                                 THEN state.last_narrative ELSE @,
            !.sceneDetails = IF state.scene_context # ""
                             THEN state.scene_context ELSE @,
            !.generationStats = [totalGenerations |-> 0,
                                 successfulGenerations |-> 0,
                                 lastError |-> undefined]]
    ELSE vs

\* Mutant: setState restores the flags and the label of the idle stage.
setStateResultIdle(vs, state) ==
    IF ~state.null
    THEN [vs EXCEPT
            !.currentNarrative = IF state.last_narrative # ""
                                 THEN state.last_narrative ELSE @,
            !.sceneDetails = IF state.scene_context # ""
                             THEN state.scene_context ELSE @,
            !.isGenerating = FALSE,
            !.isRefining = FALSE,
            !.generationProgress = Label("Ready")]
    ELSE vs

\* Lines 143-149.
setStateResult(vs, state) ==
    IF ~state.null
    THEN [vs EXCEPT
            !.currentNarrative = IF state.last_narrative # ""
                                 THEN state.last_narrative ELSE @,
            !.sceneDetails = IF state.scene_context # ""
                             THEN state.scene_context ELSE @]
    ELSE vs

\* Lines 142-150.
setState(state) ==
    /\ ~Busy
    /\ visualState' = setStateResult(visualState, state)
    /\ event' = Event("setState", 0, "none", NoImage, IdleTask, NoRead)
    /\ UNCHANGED <<captureLimit, imageQuality, maxCharacters, messageText, parsed, chubApiKey,
                   enableRefinement, task, timers, hist, pendingLeft>>

\* Mutant: a message hook marks a generation as started.
HookWritesAutoGenerate(vs) ==
    [vs EXCEPT !.isGenerating = TRUE,
               !.generationProgress = Label("Analyzing scene context...")]

\* Lines 154-188: a message hook builds its response from the message and
\* assigns nothing to the stage.
HookWrites(vs) == vs

\* Lines 154-169.
beforePrompt ==
    /\ ~Busy
    /\ visualState' = HookWrites(visualState)
    /\ event' = Event("beforePrompt", 0, "none", NoImage, IdleTask, NoRead)
    /\ UNCHANGED <<captureLimit, imageQuality, maxCharacters, messageText, parsed, chubApiKey,
                   enableRefinement, task, timers, hist, pendingLeft>>

\* Lines 171-188.
afterResponse ==
    /\ ~Busy
    /\ visualState' = HookWrites(visualState)
    /\ event' = Event("afterResponse", 0, "none", NoImage, IdleTask, NoRead)
    /\ UNCHANGED <<captureLimit, imageQuality, maxCharacters, messageText, parsed, chubApiKey,
                   enableRefinement, task, timers, hist, pendingLeft>>

-----------------------------------------------------------------------------
(* Specifications *)

InitialVisualState ==
    [currentNarrative |-> "",
     sceneDetails |-> "",
     isGenerating |-> FALSE,
     lastGeneratedImage |-> NoImage,
     sceneContext |-> NoSceneContext,
     availableCharacters |-> <<>>,
     generationProgress |-> Label("Ready"),
     errorMessage |-> undefined,
     isRefining |-> FALSE,
     generationStats |-> [totalGenerations |-> 0, successfulGenerations |-> 0,
                          lastError |-> undefined]]

InitConfigured(refinement, pending, captures, qualities) ==
    /\ chubApiKey \in {"", "key"}
    /\ enableRefinement \in refinement
    /\ imageQuality \in { ConfiguredImageQuality(q) : q \in qualities }
    /\ visualState = InitialVisualState
    /\ task = [o \in Owners |-> IdleTask]
    /\ timers = <<>>
    /\ hist = [n \in Captures |-> NoHist]
    /\ event = NoEvent
    /\ pendingLeft = pending
    /\ captureLimit = captures
    /\ maxCharacters = ConfiguredMaxCharacters(0)
    /\ messageText = getRecentMessages
    /\ parsed = NoSceneContext

\* The image quality is not configured.
InitWith(refinement, pending, captures) ==
    InitConfigured(refinement, pending, captures, {""})

\* A session with up to MaxCaptures captures, refinement enabled or not, in
\* which the service answers "not yet" at most MaxPending times.
Init == InitWith(BOOLEAN, MaxPending, MaxCaptures)

CaptureNext ==
    \/ captureScene
    \/ CaptureParsed
    \/ CaptureEnriched
    \/ \E o \in Owners, r \in SubmitResponses : SubmitResponse(o, r)
    \/ \E i \in 1 .. Len(timers) : PollTimerFires(i)
    \/ \E o \in Owners, r \in PollResponses : CheckResponse(o, r)
    \/ \E i \in 1 .. Len(timers) : GraceFires(i)
    \/ Tick

RefineNext ==
    \/ \E i \in 1 .. Len(timers), b \in BOOLEAN : RefinementStarts(i, b)
    \/ \E i \in 1 .. Len(timers) : RefineGraceFires(i)

Next == CaptureNext \/ RefineNext

Spec == Init /\ [][Next]_vars

\* Captures with refinement disabled and a service that may answer "not yet"
\* without limit: every job can run its poll loop to the end.
JobInit == InitWith({FALSE}, -1, MaxCaptures)

JobSpec == JobInit /\ [][CaptureNext]_vars

\* The same, with the scheduling the event loop gives: microtasks run, time
\* passes, expired timers fire, and every request settles (axios is given a
\* timeout of 60 s for the submit and 5 s for a check).  Nothing makes the
\* user press the button.
JobFairness ==
    /\ WF_vars(CaptureParsed)
    /\ WF_vars(CaptureEnriched)
    /\ WF_vars(\E o \in Owners, r \in SubmitResponses : SubmitResponse(o, r))
    /\ WF_vars(\E i \in 1 .. Len(timers) : PollTimerFires(i))
    /\ WF_vars(\E o \in Owners, r \in PollResponses : CheckResponse(o, r))
    /\ WF_vars(\E i \in 1 .. Len(timers) : GraceFires(i))
    /\ WF_vars(Tick)

LiveJobSpec == JobSpec /\ JobFairness

\* Two captures without an API key, from every text of up to MaxTextLen words
\* of the vocabulary: each capture extracts, enriches and ends at the missing
\* key.
EnrichInit ==
    /\ chubApiKey = ""
    /\ enableRefinement = FALSE
    /\ imageQuality = ConfiguredImageQuality("")
    /\ visualState = InitialVisualState
    /\ task = [o \in Owners |-> IdleTask]
    /\ timers = <<>>
    /\ hist = [n \in Captures |-> NoHist]
    /\ event = NoEvent
    /\ pendingLeft = 0
    /\ captureLimit = 2
    /\ maxCharacters = ConfiguredMaxCharacters(0)
    /\ messageText \in Texts
    /\ parsed = NoSceneContext

EnrichNext ==
    \/ captureScene
    \/ CaptureParsed
    \/ CaptureEnriched
    \/ \E i \in 1 .. Len(timers) : GraceFires(i)
    \/ Tick

EnrichSpec == EnrichInit /\ [][EnrichNext]_vars

\* Lines 49-55: the reference of the character at position c, with an avatar
\* or an empty avatar URL and a gallery of up to two images.
Avatar(c) == [character |-> c, image |-> "avatar", index |-> 0]
Gallery(c, k) == [character |-> c, image |-> "gallery", index |-> k]

CharacterReferences(c) ==
    [characterId : {c}, name : {c},
     avatarUrl : {NoImage, Avatar(c)},
     galleryImages : {<<>>, <<Gallery(c, 1)>>, <<Gallery(c, 1), Gallery(c, 2)>>},
     description : {""}]

ReferenceLists ==
    UNION { { refs \in [1 .. n -> UNION { CharacterReferences(c) : c \in 1 .. n }] :
                \A c \in 1 .. n : refs[c] \in CharacterReferences(c) } :
            n \in 0 .. MaxReferences }

\* getBestCharacterReference on its own, for every list of up to
\* MaxReferences character references.
ReferenceInit ==
    /\ chubApiKey = ""
    /\ enableRefinement = FALSE
    /\ imageQuality = ConfiguredImageQuality("")
    /\ \E refs \in ReferenceLists :
          visualState = [InitialVisualState EXCEPT !.availableCharacters = refs]
    /\ task = [o \in Owners |-> IdleTask]
    /\ timers = <<>>
    /\ hist = [n \in Captures |-> NoHist]
    /\ event = NoEvent
    /\ pendingLeft = 0
    /\ captureLimit = 0
    /\ maxCharacters = ConfiguredMaxCharacters(0)
    /\ messageText = getRecentMessages
    /\ parsed = NoSceneContext

\* Line 361: the call of getBestCharacterReference; its result is the url of
\* the event.
bestCharacterReference ==
    /\ event = NoEvent
    /\ event' = Event("reference", 0, "none",
                       getBestCharacterReference(visualState), IdleTask, NoRead)
    /\ UNCHANGED <<chubApiKey, enableRefinement, imageQuality, visualState, task, timers,
                   hist, pendingLeft, captureLimit, maxCharacters, messageText,
                   parsed>>

ReferenceSpec == ReferenceInit /\ [][bestCharacterReference]_vars

\* One capture with refinement enabled and a service that may answer "not
\* yet" without limit: the base job and the regeneration job can both run
\* their poll loops to the end.
SoloInit == InitWith({TRUE}, -1, 1)

SoloSpec == SoloInit /\ [][Next]_vars

\* parseSceneContext on its own, for every text of up to MaxTextLen words
\* of the vocabulary and for the example text, and for max_characters from
\* -1 to MaxCharactersConfig (0: not configured).

ExtractInit ==
    /\ chubApiKey = ""
    /\ enableRefinement = FALSE
    /\ imageQuality = ConfiguredImageQuality("")
    /\ visualState = InitialVisualState
    /\ task = [o \in Owners |-> IdleTask]
    /\ timers = <<>>
    /\ hist = [n \in Captures |-> NoHist]
    /\ event = NoEvent
    /\ pendingLeft = 0
    /\ captureLimit = 0
    /\ maxCharacters \in { ConfiguredMaxCharacters(c) :
                              c \in (-1) .. MaxCharactersConfig }
    /\ messageText \in Texts \cup {ExampleText}
    /\ parsed = NoSceneContext

\* Lines 496-525.
parseSceneContext ==
    /\ parsed = NoSceneContext
    /\ parsed' = SceneContextOf(messageText, maxCharacters)
    /\ UNCHANGED <<chubApiKey, enableRefinement, imageQuality, visualState, task, timers,
                   hist, event, pendingLeft, captureLimit, maxCharacters, messageText>>

ExtractSpec == ExtractInit /\ [][parseSceneContext]_vars

\* One capture with refinement enabled, for each image quality that can be
\* configured and for none.
SubmitInit == InitConfigured({TRUE}, 0, 1, {"", "standard", "high"})

SubmitSpec == SubmitInit /\ [][Next]_vars

\* Two captures with refinement enabled and a service that answers "not yet"
\* at most MaxPending times, under the scheduling the event loop gives: microtasks
\* run, time passes, expired timers fire and every request settles.  Nothing
\* makes the user press the button.
QuietInit == InitWith({TRUE}, MaxPending, 2)

QuietFairness ==
    /\ JobFairness
    /\ WF_vars(\E i \in 1 .. Len(timers), b \in BOOLEAN : RefinementStarts(i, b))
    /\ WF_vars(\E i \in 1 .. Len(timers) : RefineGraceFires(i))

QuietSpec == QuietInit /\ [][Next]_vars /\ QuietFairness

\* Two captures, with the host calling setState and the message hooks at any
\* moment.
HostInit == InitWith(BOOLEAN, 0, 2)

HostNext ==
    \/ Next
    \/ beforePrompt
    \/ afterResponse
    \/ \E state \in MessageStates : setState(state)

HostSpec == HostInit /\ [][HostNext]_vars

\* A service whose status endpoint either fails (the request throws) or
\* gives a terminal answer: every not-yet-terminal poll of a job is an
\* errored one.
FlakyResponses ==
    { [ok |-> FALSE, data |-> BlankResult],
      [ok |-> TRUE, data |-> [BlankResult EXCEPT !.is_done = TRUE,
                                                 !.primary_image_path = TRUE]],
      [ok |-> TRUE, data |-> [BlankResult EXCEPT !.is_failed = TRUE]] }

FlakyNext ==
    \/ captureScene
    \/ CaptureParsed
    \/ CaptureEnriched
    \/ \E o \in Owners, r \in SubmitResponses : SubmitResponse(o, r)
    \/ \E i \in 1 .. Len(timers) : PollTimerFires(i)
    \/ \E o \in Owners, r \in FlakyResponses : CheckResponse(o, r)
    \/ \E i \in 1 .. Len(timers) : GraceFires(i)
    \/ Tick

FlakySpec == JobInit /\ [][FlakyNext]_vars

\* A service whose status endpoint always reports completion without a
\* result, with or without a failure indicator.
HollowResponses ==
    { [ok |-> TRUE, data |-> [BlankResult EXCEPT !.is_done = TRUE]],
      [ok |-> TRUE, data |-> [BlankResult EXCEPT !.is_done = TRUE,
                                                 !.is_failed = TRUE]],
      [ok |-> TRUE, data |-> [BlankResult EXCEPT !.status = "completed",
                                                 !.state = "error"]],
      [ok |-> TRUE, data |-> [BlankResult EXCEPT !.state = "completed",
                                                 !.status = "failed"]] }

HollowNext ==
    \/ captureScene
    \/ CaptureParsed
    \/ CaptureEnriched
    \/ \E o \in Owners, r \in SubmitResponses : SubmitResponse(o, r)
    \/ \E i \in 1 .. Len(timers) : PollTimerFires(i)
    \/ \E o \in Owners, r \in HollowResponses : CheckResponse(o, r)
    \/ \E i \in 1 .. Len(timers) : GraceFires(i)
    \/ Tick

HollowSpec == JobInit /\ [][HollowNext]_vars

-----------------------------------------------------------------------------
(* Properties *)

Stats == visualState.generationStats
Running(o) == task[o].pc \in {"submit", "delay", "check"}
Invoked(e) == e.kind \in {"accepted", "rejected"}
CaptureFailed(e) == e.kind = "return" /\ e.owner = 0 /\ e.url = NoImage

\* What a check result carries, in the terms of the specification.
CompletionIndicator(d) ==
    d.is_done \/ d.status = "completed" \/ d.state = "completed"
FailureIndicator(d) ==
    d.is_failed \/ d.status = "failed" \/ d.state = "error"
HasResult(d) == d.primary_image_path \/ d.image_url \/ d.url \/ d.images
Checked(e) == e.read = "check" /\ e.check.ok

\* The status of the job task o runs: Submitted while the submit request is
\* pending, Polling in the poll loop; a job that returned is discarded.
JobStatus(o) ==
    CASE task[o].pc = "submit" -> "Submitted"
      [] task[o].pc \in {"delay", "check"} -> "Polling"
      [] OTHER -> "none"
RefinementFailed(e) == e.kind = "return" /\ e.owner >= 1 /\ e.url = NoImage
RefinementRunning == \E n \in Captures : Running(n)
PollTimers(o) == { i \in 1 .. Len(timers) :
                     timers[i].kind = "poll" /\ timers[i].owner = o }

\* C1: a captureScene call made while isGenerating is true is rejected and
\* changes nothing: no field of the state record, no task position (so no
\* submit or poll request is issued and nothing is queued), no timer and no
\* counter.
C1_SingleFlight ==
    [][(Invoked(event') /\ visualState.isGenerating)
         => (/\ event'.kind = "rejected"
             /\ UNCHANGED <<visualState, task, timers, hist, pendingLeft>>)]_vars

C1_Witness ==
    /\ event.kind = "rejected"
    /\ visualState.isGenerating
    /\ Running(0)

\* C2: successfulGenerations never exceeds totalGenerations.
C2_SuccessfulAtMostTotal ==
    Stats.successfulGenerations <= Stats.totalGenerations

\* C3: no job issues more than maxAttempts status checks; a job that returns
\* after status checks that all reported still-pending has timed out, without
\* a URL, after exactly maxAttempts checks, and a timeout happens in no other
\* way.
C3_PollsBounded ==
    /\ \A o \in Owners : task[o].polls <= maxAttempts
    /\ event.polls <= maxAttempts
    /\ (event.kind = "return" /\ event.polls >= 1 /\ event.pendings = event.polls)
         => (/\ event.outcome = "timeout"
             /\ event.url = NoImage
             /\ event.polls = maxAttempts)
    /\ event.outcome = "timeout"
         => (event.polls = maxAttempts /\ event.pendings = maxAttempts)

C3_Witness ==
    /\ event.kind = "return"
    /\ event.outcome = "timeout"
    /\ event.polls = maxAttempts

\* C4 as stated: every submit response that carries the completion flag and
\* a result URL completes the job at once with that URL and without a status
\* check.
C4_Original ==
    (event.submit.ok /\ event.submit.is_done /\ event.submit.primary_image_path)
      => (/\ event.kind = "return"
          /\ event.outcome = "immediate"
          /\ event.url # NoImage
          /\ event.polls = 0)

\* C4, amended: every submit response that carries a job identifier
\* (generation_uuid), the completion flag and a result URL completes the job
\* at once with that URL and without a status check.
C4_ShortCircuit ==
    (/\ event.submit.ok
     /\ event.submit.generation_uuid
     /\ event.submit.is_done
     /\ event.submit.primary_image_path)
      => (/\ event.kind = "return"
          /\ event.outcome = "immediate"
          /\ event.url = JobUrl(event.owner, visualState)
          /\ event.owner = 0 => visualState.lastGeneratedImage = event.url
          /\ event.polls = 0
          /\ ~Running(event.owner))

C4_Witness ==
    /\ event.kind = "return"
    /\ event.submit.generation_uuid
    /\ event.submit.is_done
    /\ event.submit.primary_image_path

\* C5: with refinement disabled no refinement pass is ever scheduled or
\* started: isRefining is never true, no refinement timer or task exists, no
\* verification is run and no regeneration job is submitted.
C5_NoRefinementWhenDisabled ==
    ~enableRefinement
      => (/\ ~visualState.isRefining
          /\ \A n \in Captures :
               /\ task[n].pc = "idle"
               /\ hist[n].passes = 0
               /\ hist[n].refine = 0
          /\ \A i \in 1 .. Len(timers) : timers[i].kind \notin {"defer", "rgrace"})

C5_Witness ==
    /\ ~enableRefinement
    /\ Stats.successfulGenerations >= 1
    /\ event.kind = "return"
    /\ event.url # NoImage

\* C6: at most one refinement pass is executing at any time.
C6_OneRefinementAtATime ==
    Cardinality({n \in Captures : Running(n)}) <= 1

\* C7: per accepted capture at most one refinement pass is started, the pass
\* submits at most one regeneration job, whose reference image is the URL the
\* base job of that capture returned, and the capture and its pass together
\* submit at most two jobs.
C7_OnePassPerCapture ==
    \A n \in Captures :
        /\ hist[n].passes <= 1
        /\ hist[n].refine <= hist[n].passes
        /\ hist[n].base + hist[n].refine <= 2
        /\ hist[n].refine >= 1 => hist[n].initImage = Url(n, FALSE)
        /\ Running(n) => hist[n].refine = 1

C7_Witness ==
    /\ hist[1].refine = 1
    /\ visualState.lastGeneratedImage = Url(2, FALSE)
    /\ event.kind = "return"
    /\ event.owner = 1
    /\ event.url = NoImage

\* C8: a capture whose job fails (no credential, submit error or rejection,
\* explicit failure, timeout) ends with isGenerating false and with an error
\* message in errorMessage and in generationStats.lastError.
C8_FailureRecorded ==
    CaptureFailed(event)
      => (/\ ~visualState.isGenerating
          /\ task[0].pc = "idle"
          /\ visualState.errorMessage # undefined
          /\ Stats.lastError # undefined
          /\ event.outcome \in {"nokey", "neterror", "nouuid", "failed", "timeout"})

C8_Witness ==
    /\ CaptureFailed(event)
    /\ event.outcome = "timeout"

\* C9: a capture in flight eventually clears isGenerating, and a call made
\* when no capture is in flight (in particular after a failed one) is
\* accepted and starts the sequence from its first step.
C9_CaptureTerminates ==
    /\ visualState.isGenerating ~> ~visualState.isGenerating
    /\ [][(Invoked(event') /\ ~visualState.isGenerating)
            => (/\ event'.kind = "accepted"
                /\ visualState'.isGenerating
                /\ task'[0].pc = "parse"
                /\ Stats' = [Stats EXCEPT !.totalGenerations = @ + 1])]_vars

C9_Witness ==
    /\ Stats.totalGenerations = 2
    /\ Stats.successfulGenerations = 0
    /\ Stats.lastError # undefined
    /\ Running(0)

\* C10: without a credential no job is submitted and no status check is
\* made; every capture ends failed, with an error message recorded, and the
\* success counter stays at zero.
C10_NoKeyNoNetwork ==
    chubApiKey = ""
      => (/\ \A o \in Owners : ~Running(o) /\ task[o].polls = 0
          /\ \A n \in Captures : hist[n].base = 0 /\ hist[n].refine = 0
          /\ Stats.successfulGenerations = 0
          /\ visualState.lastGeneratedImage = NoImage
          /\ event.kind = "return"
               => (/\ event.outcome = "nokey"
                   /\ event.url = NoImage
                   /\ ~visualState.isGenerating
                   /\ visualState.errorMessage # undefined
                   /\ Stats.lastError # undefined))

C10_Witness ==
    /\ chubApiKey = ""
    /\ event.kind = "return"
    /\ Stats.totalGenerations >= 1

\* C11: a status check that throws counts as not yet terminal for its attempt
\* only: the next attempt is made (the task sleeps before check number
\* polls + 1) unless it was the last of the maxAttempts attempts, in which
\* case the job times out.  With a status endpoint that fails until it gives
\* a terminal answer, a job completes after polls - 1 errored checks, for any
\* polls up to maxAttempts, and times out only after maxAttempts errored
\* checks.
C11_ErroredCheckIsPending ==
    /\ (event.read = "check" /\ event.kind = "poll") => ~event.check.ok
    /\ (event.read = "check" /\ ~event.check.ok) =>
          \/ /\ event.kind = "poll"
             /\ event.polls < maxAttempts
             /\ event.attempt = event.polls + 1
             /\ task[event.owner].pc = "delay"
             /\ task[event.owner].attempt = event.attempt
          \/ /\ event.kind = "return"
             /\ event.outcome = "timeout"
             /\ event.polls = maxAttempts
    /\ (event.kind = "return" /\ event.outcome = "completed") =>
          /\ event.polls \in 1 .. maxAttempts
          /\ event.pendings = event.polls - 1
    /\ (event.kind = "return" /\ event.outcome = "timeout") =>
          /\ event.polls = maxAttempts
          /\ event.pendings = maxAttempts

C11_Witness ==
    /\ event.kind = "return"
    /\ event.outcome = "completed"
    /\ event.polls = maxAttempts
    /\ event.pendings = maxAttempts - 1

\* C12: a check result that carries a failure indicator (is_failed,
\* status 'failed' or state 'error') ends the job as failed at that attempt:
\* generateSceneImage returns without a URL and the task makes no further
\* check.
C12_ExplicitFailureEndsJob ==
    (Checked(event) /\ FailureIndicator(event.check.data)) =>
        /\ event.kind = "return"
        /\ event.outcome = "failed"
        /\ event.url = NoImage
        /\ ~Running(event.owner)

\* C13: every check result is read as exactly one of completed (with a
\* URL), failed, or still pending: completed when it carries a completion
\* indicator together with a result, failed when it carries a failure
\* indicator, still pending otherwise (the loop goes on, or times out after
\* the last attempt).
C13_Normalized ==
    Checked(event) =>
        LET d == event.check.data
        IN IF CompletionIndicator(d) /\ HasResult(d)
           THEN /\ event.kind = "return"
                /\ event.outcome = "completed"
                /\ event.url # NoImage
           ELSE IF FailureIndicator(d)
                THEN /\ event.kind = "return"
                     /\ event.outcome = "failed"
                     /\ event.url = NoImage
                ELSE \/ event.kind = "poll"
                     \/ event.kind = "return" /\ event.outcome = "timeout"

\* C14: the status of a job only moves forward.  A job starts as Submitted;
\* from Submitted it goes to Polling or returns; in Polling the attempt
\* number never decreases; it ends by returning completed, failed or timed
\* out (or, before Polling, on a rejected submit).  Once it has returned, its
\* record is discarded, no poll timer and no status check of it is left,
\* and a task that runs no job has none.
C14_StatusForward ==
    [][\A o \in Owners :
         /\ (JobStatus(o) = "none" /\ JobStatus(o)' # "none")
               => JobStatus(o)' = "Submitted"
         /\ JobStatus(o) = "Submitted"
               => \/ UNCHANGED task[o]
                  \/ JobStatus(o)' = "Polling" /\ task'[o].attempt = 1
                  \/ JobStatus(o)' = "none"
         /\ JobStatus(o) = "Polling"
               => /\ JobStatus(o)' \in {"Polling", "none"}
                  /\ JobStatus(o)' = "Polling"
                        => /\ task'[o].attempt >= task[o].attempt
                           /\ task'[o].polls >= task[o].polls
         /\ (JobStatus(o) # "none" /\ JobStatus(o)' = "none")
               => /\ event'.kind = "return"
                  /\ event'.owner = o
                  /\ event'.outcome \in {"completed", "failed", "timeout",
                                         "immediate", "neterror", "nouuid"}
                  /\ (event'.url # NoImage)
                        <=> (event'.outcome \in {"completed", "immediate"})
                  /\ task'[o] = IdleTask
         /\ (JobStatus(o) = "none")' => (PollTimers(o) = {})'
         /\ (task[o].pc = "delay")' <=> (PollTimers(o) # {})'
      ]_vars

C14_Witness ==
    /\ event.kind = "return"
    /\ event.outcome = "completed"
    /\ event.polls >= 2
    /\ JobStatus(event.owner) = "none"
    /\ PollTimers(event.owner) = {}

\* C15 as stated: when the regeneration job of a refinement pass returns no
\* image, the step writes only the progress label and errorMessage.
C15_Original ==
    [][RefinementFailed(event')
         => visualState' =
              [visualState EXCEPT
                 !.generationProgress = Label("Refinement failed"),
                 !.errorMessage = "Refinement generation failed"]]_vars

\* C15: when the regeneration job of a refinement pass returns no image
\* (rejected submit, failed or timed out), lastGeneratedImage keeps the
\* image already stored and both counters keep their values; the step
\* writes the progress label and errorMessage and clears isRefining.
C15_FailureKeepsImage ==
    [][RefinementFailed(event')
         => /\ visualState'.lastGeneratedImage = visualState.lastGeneratedImage
            /\ visualState'.generationStats = visualState.generationStats
            /\ visualState' =
                 [visualState EXCEPT
                    !.generationProgress = Label("Refinement failed"),
                    !.errorMessage = "Refinement generation failed",
                    !.isRefining = FALSE]]_vars

C15_Witness ==
    /\ RefinementFailed(event)
    /\ event.outcome = "timeout"
    /\ visualState.lastGeneratedImage = Url(event.owner, FALSE)
    /\ visualState.errorMessage = "Refinement generation failed"
    /\ Stats.successfulGenerations = 1

\* C16: when the grace timer of a capture fires while no refinement pass is
\* running, it resets the progress label to 'Ready'; when it fires while a
\* refinement pass is running, it leaves the state record untouched.
C16_GraceDefersToRefinement ==
    [][event'.kind = "grace"
         => IF RefinementRunning
            THEN UNCHANGED visualState
            ELSE visualState' =
                   [visualState EXCEPT !.generationProgress = Label("Ready")]
      ]_vars

\* The positions of captureScene, in program order.
CaptureEdges ==
    { <<"idle", "parse">>, <<"parse", "enrich">>, <<"enrich", "submit">>,
      <<"enrich", "idle">>, <<"submit", "delay">>, <<"submit", "idle">>,
      <<"delay", "check">>, <<"check", "delay">>, <<"check", "idle">> }

\* C17: within one capture the steps happen in program order: the label
\* 'Analyzing scene context...' is written when the call is accepted; when
\* extraction has returned, the label 'Fetching character references...';
\* when the references are resolved the scene context is stored, and the
\* label 'Generating scene image...' is written before the one submit of
\* the capture.  A refinement follow-up is scheduled only in the step in
\* which the base job returns, and only when it returns an image.
C17_CaptureOrder ==
    [][LET n == visualState.generationStats.totalGenerations
           progress == visualState.generationProgress
       IN /\ task'[0].pc # task[0].pc
               => <<task[0].pc, task'[0].pc>> \in CaptureEdges
          /\ task'[0].pc = "parse"
               => /\ progress' = Label("Analyzing scene context...")
                  /\ visualState'.isGenerating
                  /\ UNCHANGED hist
          /\ task'[0].pc = "enrich"
               => /\ progress' = Label("Fetching character references...")
                  /\ UNCHANGED <<hist, visualState.sceneContext>>
          /\ (task[0].pc = "enrich" /\ task'[0].pc = "submit")
               => /\ progress' = Label("Generating scene image...")
                  /\ visualState'.sceneContext = DefaultSceneContext
                  /\ hist'[n].base = 1
          /\ \A c \in Captures :
               hist'[c].base # hist[c].base
                 => /\ c = n
                    /\ task[0].pc = "enrich"
                    /\ task'[0].pc = "submit"
                    /\ hist[c].base = 0
          /\ \A c \in Captures :
               (task'[c].pc = "deferred" /\ task[c].pc # "deferred")
                 => /\ c = n
                    /\ Running(0)
                    /\ ~Running(0)'
                    /\ event'.kind = "return"
                    /\ event'.owner = 0
                    /\ event'.outcome \in {"completed", "immediate"}
                    /\ event'.url = Url(c, FALSE)
                    /\ visualState'.lastGeneratedImage = event'.url
      ]_vars

C17_Witness ==
    /\ event.kind = "return"
    /\ event.owner = 0
    /\ event.outcome = "completed"
    /\ task[Stats.totalGenerations].pc = "deferred"
    /\ visualState.sceneContext = DefaultSceneContext

\* The kind of failure behind each way generateSceneImage returns null.
FailureKind(outcome) ==
    CASE outcome = "nokey" -> "Configuration"
      [] outcome = "neterror" -> "Network"
      [] outcome \in {"nouuid", "failed"} -> "RemoteFailure"
      [] outcome = "timeout" -> "Timeout"
      [] OTHER -> "none"

\* C18: the error message recorded for a failed capture tells the kind of
\* the failure: the message recorded when the credential is missing (kind
\* Configuration) is recorded for no failure of another kind.
C18_MessageTellsKind ==
    CaptureFailed(event) =>
        ((visualState.errorMessage =
            "Image generation failed - check API connection")
           <=> (FailureKind(event.outcome) = "Configuration"))

\* The words of the text, in lower case.
Words == { messageText[i].lower : i \in 1 .. Len(messageText) }
NoDuplicates(seq) == Cardinality(Range(seq)) = Len(seq)
IsPrefix(p, seq) == Len(p) <= Len(seq) /\ SubSeq(seq, 1, Len(p)) = p

\* C19: for every text and every configured cap, parseSceneContext returns a
\* scene context with at least one character and a non-empty location,
\* action, mood and time of day; a field for which the text gives nothing
\* takes its default ('main character', 'university campus', 'conversation',
\* 'neutral', 'day'), and a detected one the value of its keyword.
C19_ExtractionTotal ==
    parsed # NoSceneContext =>
        /\ Len(parsed.characters) >= 1
        /\ \A i \in 1 .. Len(parsed.characters) : parsed.characters[i] # ""
        /\ {parsed.location, parsed.actions, parsed.mood, parsed.timeOfDay}
             \cap {"", undefined} = {}
        /\ (Words \cap {"professor", "dr"} = {})
             => parsed.characters = DefaultSceneContext.characters
        /\ messageText \in Texts =>
             /\ parsed.location = IF "library" \in Words THEN "library"
                                  ELSE DefaultSceneContext.location
             /\ parsed.actions = IF "reading" \in Words THEN "reading"
                                 ELSE DefaultSceneContext.actions
             /\ parsed.mood = IF "sad" \in Words THEN "melancholic"
                              ELSE DefaultSceneContext.mood
             /\ parsed.timeOfDay = IF "sunset" \in Words THEN "sunset"
                                   ELSE IF "midnight" \in Words THEN "night"
                                   ELSE DefaultSceneContext.timeOfDay
        /\ messageText = getRecentMessages => parsed = DefaultSceneContext

C19_Witness ==
    /\ parsed.characters = <<"main character">>
    /\ "professor" \in Words
    /\ "smith" \in Words
    /\ maxCharacters < 0
    /\ parsed.mood = "melancholic"
    /\ parsed.location = "university campus"

\* C20 as stated: for every text and every configured max_characters, the
\* list of characters is no longer than maxCharacters and has no duplicates.
C20_Original ==
    parsed # NoSceneContext =>
        /\ Len(parsed.characters) <= maxCharacters
        /\ NoDuplicates(parsed.characters)

\* C20: for every text, and every configured max_characters that is
\* positive or not set, the list of characters is no longer than
\* maxCharacters; for every max_characters it has no duplicates and, when a
\* name is kept, it is the first names in the order of detection.
C20_CharactersCapped ==
    parsed # NoSceneContext =>
        /\ maxCharacters >= 1 => Len(parsed.characters) <= maxCharacters
        /\ NoDuplicates(parsed.characters)
        /\ \/ parsed.characters = DefaultSceneContext.characters
           \/ IsPrefix(parsed.characters,
                       CollectNames(characterPatterns(toLowerCase(messageText)), <<>>))

C20_Witness ==
    /\ maxCharacters = 1
    /\ parsed.characters = <<"smith">>
    /\ CollectNames(characterPatterns(toLowerCase(messageText)), <<>>)
         = <<"smith", "professor">>

\* C21: for the text "Professor Smith said hello in the library at sunset, a
\* romantic mood fills the room", with the cap not configured, extraction
\* gives the character Smith, the location library, the mood romantic, the
\* time of day sunset and the default action.
C21_Example ==
    (messageText = ExampleText /\ maxCharacters = ConfiguredMaxCharacters(0)
       /\ parsed # NoSceneContext)
      => parsed = [characters |-> <<"Smith">>, location |-> "library",
                   actions |-> "conversation", mood |-> "romantic",
                   timeOfDay |-> "sunset"]

C26_StatsMonotonic ==
    [][/\ visualState'.generationStats.totalGenerations =
            Stats.totalGenerations
              + (IF event'.kind = "accepted" THEN 1 ELSE 0)
       /\ visualState'.generationStats.successfulGenerations
            >= Stats.successfulGenerations
      ]_vars

C26_Witness ==
    /\ event.kind = "setState"
    /\ visualState.currentNarrative = "narrative"
    /\ Stats.totalGenerations = 2
    /\ Stats.successfulGenerations = 2

Reverse(seq) == [i \in 1 .. Len(seq) |-> seq[Len(seq) + 1 - i]]

\* The field is the phrase of the table entry that occurs in the lower-cased
\* text and has no occurring entry before it in the table.
FirstInTable(keywords, value) ==
    \A k \in 1 .. Len(keywords) :
        (/\ includes(toLowerCase(messageText), keywords[k][1])
         /\ \A m \in 1 .. (k - 1) :
                ~includes(toLowerCase(messageText), keywords[m][1]))
          => value = keywords[k][2]

\* C23: location, actions, mood and timeOfDay are each the phrase of the
\* first keyword, in table order, that occurs as a substring of the
\* lower-cased text: an earlier table entry wins over a later one wherever
\* the two occur in the text, so the same words in the reverse order give the
\* same four fields.
C23_TableOrder ==
    parsed # NoSceneContext
      => /\ FirstInTable(locationKeywords, parsed.location)
         /\ FirstInTable(actionKeywords, parsed.actions)
         /\ FirstInTable(moodKeywords, parsed.mood)
         /\ FirstInTable(timeKeywords, parsed.timeOfDay)
         /\ LET other == SceneContextOf(Reverse(messageText), maxCharacters)
            IN /\ other.location = parsed.location
               /\ other.actions = parsed.actions
               /\ other.mood = parsed.mood
               /\ other.timeOfDay = parsed.timeOfDay

C23_Witness ==
    /\ Len(messageText) = 2
    /\ messageText[1].lower = "midnight"
    /\ messageText[2].lower = "sunset"
    /\ parsed # NoSceneContext
    /\ parsed.timeOfDay = "sunset"

\* C24: enrichment keeps the sequence of characters: every lookup gives no
\* reference, so the enriched scene context has the extracted names, each at
\* its position, and the other fields as extracted, and the list of
\* available characters is set to the references found, which are none,
\* whatever it held before.
C24_EnrichmentKeepsNames ==
    [][task[0].pc = "enrich"
         => /\ \A i \in 1 .. Len(parsed.characters) :
                   fetchCharacterReference(parsed.characters[i]) = null
            /\ Len(visualState'.sceneContext.characters) = Len(parsed.characters)
            /\ \A i \in 1 .. Len(parsed.characters) :
                   visualState'.sceneContext.characters[i] = parsed.characters[i]
            /\ visualState'.sceneContext = parsed
            /\ visualState'.availableCharacters = <<>>
      ]_vars

C24_Witness ==
    /\ event.kind = "return"
    /\ event.outcome = "nokey"
    /\ Stats.totalGenerations = 2
    /\ Len(visualState.sceneContext.characters) = 2
    /\ visualState.sceneContext.characters = parsed.characters
    /\ visualState.availableCharacters = <<>>

\* The first gallery image and the first avatar that the list of available
\* characters offers, if any.
Least(S) == CHOOSE c \in S : \A d \in S : c <= d

WithGallery ==
    { c \in 1 .. Len(visualState.availableCharacters) :
        Len(visualState.availableCharacters[c].galleryImages) > 0 }

WithAvatar ==
    { c \in 1 .. Len(visualState.availableCharacters) :
        visualState.availableCharacters[c].avatarUrl # NoImage }

ReferenceOf(o) ==
    IF o = 0 THEN getBestCharacterReference(visualState) ELSE hist[o].initImage

\* C27: the submit request goes to the image-to-image endpoint, with
\* init_image set to the reference and strength 0.7, exactly when the job was
\* given a reference image, and otherwise to the text-to-image endpoint with
\* neither field; it asks for 50 steps when the quality is 'high' and for 30
\* otherwise.  The base job of a capture, for which no character reference
\* was resolved, uses text-to-image; a regeneration uses image-to-image with
\* the base image of its capture.
C27_SubmitRequest ==
    event.kind = "submit"
      => /\ event.request.endpoint =
              (IF ReferenceOf(event.owner) # NoImage THEN "/images/img2img"
               ELSE "/images/text2img")
         /\ event.request.endpoint = "/images/img2img"
              => /\ event.request.init_image = ReferenceOf(event.owner)
                 /\ event.request.strength = "0.7"
         /\ event.request.endpoint = "/images/text2img"
              => /\ event.request.init_image = NoImage
                 /\ event.request.strength = undefined
         /\ event.request.num_inference_steps =
              (IF imageQuality = "high" THEN 50 ELSE 30)
         /\ event.owner = 0
              => /\ visualState.availableCharacters = <<>>
                 /\ event.request.endpoint = "/images/text2img"
         /\ event.owner # 0
              => /\ event.request.endpoint = "/images/img2img"
                 /\ event.request.init_image = Url(event.owner, FALSE)

C27_Witness ==
    /\ event.kind = "submit"
    /\ event.owner = 1
    /\ imageQuality = "high"
    /\ event.request.endpoint = "/images/img2img"
    /\ event.request.num_inference_steps = 50

\* C28: when the submit request fails (it cannot be sent, times out or is
\* answered with an error status), the job returns at once without an image:
\* it has made no status check and has none pending, and the capture ends as
\* failed, with an error message and isGenerating cleared.
C28_SubmitFailure ==
    (event.read = "submit" /\ ~event.submit.ok)
      => /\ event.kind = "return"
         /\ event.outcome = "neterror"
         /\ event.url = NoImage
         /\ event.attempt = 0
         /\ event.polls = 0
         /\ task[event.owner].pc = "idle"
         /\ PollTimers(event.owner) = {}
         /\ event.owner = 0
              => /\ ~visualState.isGenerating
                 /\ visualState.errorMessage # undefined
                 /\ Stats.lastError # undefined

C28_Witness ==
    /\ event.kind = "return"
    /\ event.read = "submit"
    /\ ~event.submit.ok
    /\ event.owner = 0
    /\ Stats.totalGenerations = 2
    /\ ~visualState.isGenerating

\* C29: the progress counter "Generating... N/MAX" is written at the head of
\* every round of the poll loop, before the round's status check is sent: N
\* is 1 for the first check of a job and one more than the number of checks
\* the job has sent for each later one, also after a check that threw; MAX
\* is maxAttempts, and 1 <= N <= MAX wherever a counter is shown or a job
\* is polling.
C29_AttemptCounter ==
    /\ visualState.generationProgress[1] = "Generating..."
         => /\ visualState.generationProgress[2] \in 1 .. maxAttempts
            /\ visualState.generationProgress[3] = maxAttempts
    /\ \A o \in Owners :
          /\ task[o].pc = "delay"
               => (task[o].attempt \in 1 .. maxAttempts
                     /\ task[o].attempt = task[o].polls + 1)
          /\ task[o].pc = "check"
               => (task[o].attempt \in 1 .. maxAttempts
                     /\ task[o].attempt = task[o].polls)
    /\ event.kind = "poll"
         => /\ visualState.generationProgress =
                 <<"Generating...", event.attempt, maxAttempts>>
            /\ event.attempt = event.polls + 1
            /\ task[event.owner].pc = "delay"
            /\ task[event.owner].attempt = event.attempt
            /\ event.read = "submit" <=> event.attempt = 1

C29_Witness ==
    /\ event.kind = "poll"
    /\ event.read = "check"
    /\ ~event.check.ok
    /\ event.attempt = maxAttempts
    /\ visualState.generationProgress = <<"Generating...", maxAttempts, maxAttempts>>

\* C30: while a capture is in flight (isGenerating is true) the progress
\* label is one that the capture wrote: the label of its analysis, of its
\* reference lookup or of its submit, or the counter of its own poll loop;
\* it is not 'Ready' from a grace timer and not a label of a refinement pass.
C30_LabelOfRunningCapture ==
    visualState.isGenerating
      => \/ /\ task[0].pc = "parse"
            /\ visualState.generationProgress = Label("Analyzing scene context...")
         \/ /\ task[0].pc = "enrich"
            /\ visualState.generationProgress =
                 Label("Fetching character references...")
         \/ /\ task[0].pc = "submit"
            /\ visualState.generationProgress = Label("Generating scene image...")
         \/ /\ task[0].pc \in {"delay", "check"}
            /\ visualState.generationProgress = PollLabel(task[0].attempt)

\* C31: the stored image belongs to the most recent successful capture: the
\* capture that lastGeneratedImage comes from never moves back to an earlier
\* one, so a refinement pass does not store its refined image once a later
\* capture has stored its own.
C31_ImageOfLatestCapture ==
    [][/\ visualState'.lastGeneratedImage.capture
            >= visualState.lastGeneratedImage.capture
       /\ (event'.kind = "return" /\ event'.owner >= 1 /\ event'.url # NoImage)
            => visualState.lastGeneratedImage.capture <= event'.owner
      ]_vars

\* C32: a check result with a completion indicator and no result under
\* primary_image_path, image_url, url or images is read as still pending,
\* also when it carries a failure indicator: the job sleeps before its next
\* check, or times out if that was check number maxAttempts.  A job whose
\* checks all have this shape sends maxAttempts checks and ends by timeout,
\* without an image, never as completed or failed.
C32_CompletionWithoutResult ==
    /\ (/\ Checked(event)
         /\ CompletionIndicator(event.check.data)
         /\ ~HasResult(event.check.data))
         => \/ /\ event.kind = "poll"
               /\ event.polls < maxAttempts
               /\ event.pendings = event.polls
               /\ task[event.owner].pc = "delay"
            \/ /\ event.kind = "return"
               /\ event.outcome = "timeout"
               /\ event.url = NoImage
               /\ event.polls = maxAttempts
               /\ event.pendings = maxAttempts
    /\ (event.kind = "return" /\ event.polls >= 1)
         => /\ event.outcome = "timeout"
            /\ event.polls = maxAttempts
            /\ ~visualState.isGenerating
            /\ visualState.errorMessage # undefined

C32_Witness ==
    /\ event.kind = "return"
    /\ event.outcome = "timeout"
    /\ event.polls = maxAttempts
    /\ event.check.data.is_done
    /\ event.check.data.is_failed

\* C33: a submit response that was received without a job identifier
\* (generation_uuid) ends the job at once without an image and without a
\* status check, whatever completion flag or result URL it carries, and the
\* capture ends as failed.
C33_NoJobIdentifier ==
    (event.read = "submit" /\ event.submit.ok /\ ~event.submit.generation_uuid)
      => /\ event.kind = "return"
         /\ event.outcome = "nouuid"
         /\ event.url = NoImage
         /\ event.attempt = 0
         /\ event.polls = 0
         /\ task[event.owner].pc = "idle"
         /\ PollTimers(event.owner) = {}
         /\ event.owner = 0
              => /\ ~visualState.isGenerating
                 /\ visualState.errorMessage # undefined
                 /\ visualState.lastGeneratedImage # JobUrl(0, visualState)

C33_Witness ==
    /\ event.kind = "return"
    /\ event.outcome = "nouuid"
    /\ event.submit.is_done
    /\ event.submit.primary_image_path
    /\ event.polls = 0
    /\ ~visualState.isGenerating

\* C34: every accepted capture starts with errorMessage unset, and a capture
\* that ends with an image leaves isGenerating false with errorMessage still
\* unset, whatever the refinement passes of earlier captures did while it
\* ran; lastError, once set, is not cleared by any later step.
C34_ErrorMessageOfCapture ==
    [][/\ event'.kind = "accepted" => visualState'.errorMessage = undefined
       /\ (event'.kind = "return" /\ event'.owner = 0 /\ event'.url # NoImage)
            => (~visualState'.isGenerating
                  /\ visualState'.errorMessage = undefined)
       /\ Stats.lastError # undefined
            => visualState'.generationStats.lastError = Stats.lastError
      ]_vars

Quiescent ==
    /\ ~visualState.isGenerating
    /\ ~visualState.isRefining
    /\ visualState.generationProgress = Label("Ready")

\* C35: after the captures and refinement passes of a session the stage
\* comes to rest and stays there: isGenerating and isRefining are false and
\* the progress label is 'Ready'.
C35_Quiescence == <>[]Quiescent

C35_Witness ==
    /\ Quiescent
    /\ timers = <<>>
    /\ \A o \in Owners : task[o].pc = "idle"
    /\ Stats.totalGenerations = 2
    /\ hist[1].passes = 1
    /\ hist[2].passes = 1

\* C36: a setState call, made at any moment between the steps of the tasks,
\* changes no field of the state record other than currentNarrative and
\* sceneDetails, and no task, timer or request; and the writes of the tasks
\* that follow land in the record the host has replaced: a job that returns
\* to a capture clears isGenerating and stores its image, a pass that ends
\* clears isRefining, a poll round writes its counter, and none of them
\* touches currentNarrative or sceneDetails.
C36_SetStateFrame ==
    [][/\ event'.kind = "setState"
            => /\ visualState' =
                    [visualState EXCEPT
                       !.currentNarrative = visualState'.currentNarrative,
                       !.sceneDetails = visualState'.sceneDetails]
               /\ UNCHANGED <<task, timers, hist, parsed, pendingLeft>>
       /\ event'.kind # "setState"
            => /\ visualState'.currentNarrative = visualState.currentNarrative
               /\ visualState'.sceneDetails = visualState.sceneDetails
       /\ (event'.kind = "return" /\ event'.owner = 0)
            => /\ ~visualState'.isGenerating
               /\ event'.url # NoImage
                    => /\ visualState'.lastGeneratedImage = event'.url
                       /\ visualState'.generationStats.successfulGenerations
                            = Stats.successfulGenerations + 1
       /\ (event'.kind = "return" /\ event'.owner >= 1)
            => ~visualState'.isRefining
       /\ event'.kind = "poll"
            => visualState'.generationProgress = PollLabel(event'.attempt)
      ]_vars

C36_Witness ==
    /\ event.kind = "setState"
    /\ task[0].pc = "check"
    /\ visualState.isGenerating
    /\ visualState.generationProgress = PollLabel(1)
    /\ visualState.currentNarrative = "narrative"
    /\ visualState.sceneDetails = "context"

====
